---- MODULE Spec2Model ----
(***************************************************************************)
(* Model of gas-stock-system/backend/app.py: a ledger of stock movements   *)
(* (table StockRecord) kept in agreement with one summary row (table       *)
(* StockSummary) by the handlers stock_in, stock_out, delete_record and    *)
(* update_record.                                                          *)
(*                                                                         *)
(* Numbers.  The Float columns and the JSON numbers of the requests are    *)
(* modelled in exact fixed-point arithmetic with one binary fractional     *)
(* digit: the real number x is the integer 2*x (Num).  The requests carry  *)
(* whole numbers, so "weight / 2" (Half) is exact.  Rounding error of      *)
(* IEEE doubles is not modelled.                                           *)
(***************************************************************************)
EXTENDS Integers, FiniteSets, Sequences, TLC

\* ---------------------------------------------------------------- bounds
MaxId == 2          \* largest primary key the ledger hands out

\* --------------------------------------------------------------- numbers
Num(n) == 2 * n

\* weight / 2 of stock_out, delete_record and update_record
Half(x) == x \div 2

\* A JSON value of the request body as data.get returns it: None when the
\* key is absent (or null), a number otherwise.
NullVal == [kind |-> "null", val |-> 0]
NumVal(n) == [kind |-> "num", val |-> Num(n)]

\* a check for None alone, which lets 0 through
Falsy_NoneOnly(v) == v.kind = "null"

\* Python's "not v" on such a value: None and 0 are falsy.
Falsy(v) == v.kind = "null" \/ v.val = 0

\* The request bodies served: every pair of a weight of -1, 1 or 2 with an
\* amount of 1 or 2, and each way for a field to be absent or zero.
Absent == {NullVal, NumVal(0)}
Bodies ==
    {<<NumVal(w), NumVal(a)>> : w \in {-1, 1, 2}, a \in {1, 2}}
        \cup {<<f, NumVal(1)>> : f \in Absent}
        \cup {<<NumVal(1), f>> : f \in Absent}
        \cup {<<NullVal, NullVal>>}
IdInputs == 1..MaxId
Clients == {"c1", "c2"}

\* ------------------------------------------------------------------ time
\* Instants are minutes of UTC since 00:00 of day 0, as datetime.utcnow
\* gives them (seconds and microseconds are not told apart); dates are day
\* numbers.
MinutesPerDay == 1440

\* hour=23, minute=59, second=59, microsecond=999999 as a minute of the day
LastMinute == 1439

\* tzinfo=pytz.timezone('Asia/Shanghai') attached with datetime.replace: the
\* zone's first entry, local mean time, 8 h 06 min ahead of UTC
ReplaceOffset == 486

\* astimezone(local_tz): China Standard Time, 8 h ahead of UTC
LocalOffset == 480

\* datetime.strptime(d, '%Y-%m-%d'): 00:00 of the date, no zone
strptime(d) == d * MinutesPerDay

\* .replace(tzinfo=pytz.timezone('Asia/Shanghai')).astimezone(pytz.utc)
to_utc(t) == t - ReplaceOffset

\* .replace(hour=23, minute=59, second=59, microsecond=999999)
replace_end_of_day(t) == (t \div MinutesPerDay) * MinutesPerDay + LastMinute

start_utc(start_time) == to_utc(strptime(start_time))

end_utc(end_time) == replace_end_of_day(to_utc(strptime(end_time)))

\* The moments at which requests arrive, for date 1 of the local calendar:
\* local 23:50 and 23:55 of the day before, local 00:00, local 23:50.
Instants == {950, 955, 960, 2390}
NoDate == 0
DateInputs == {NoDate, 1}
NoListing == [start_time |-> NoDate, end_time |-> NoDate, rows |-> <<>>]

VARIABLES
    records,    \* table StockRecord: primary key -> row
    summary,    \* the one row of table StockSummary
    req,        \* the last request served
    resp,       \* its response
    prev,       \* the two tables as they were when that request arrived
    pc,         \* concurrent clients: position of each handler
    sess,       \* concurrent clients: what each handler's session holds
    now,        \* the clock datetime.utcnow reads
    listed      \* the answer of get_records, when it served the last request

vars == <<records, summary, req, resp, prev, pc, sess, now, listed>>

\* ------------------------------------------------------------ the tables
StockRecord(type, weight, amount, unit) ==
    [type |-> type, weight |-> weight, amount |-> amount, unit |-> unit,
     created_at |-> now]

StockSummary(stock, sales, cost) ==
    [current_stock |-> stock, total_sales |-> sales, total_cost |-> cost]

Max(S) == CHOOSE m \in S : \A x \in S : x <= m

Min(S) == CHOOSE m \in S : \A x \in S : m <= x

\* INTEGER PRIMARY KEY without AUTOINCREMENT: the next key is one more than
\* the largest key in the table.
NewId(recs) == Max(DOMAIN recs \cup {0}) + 1

Insert(recs, r) == recs @@ (NewId(recs) :> r)

\* the row is never handed to session.delete
Delete_Keep(recs, id) == recs

Delete(recs, id) == [i \in DOMAIN recs \ {id} |-> recs[i]]

\* ------------------------------------------------------------- responses
Ok == [status |-> 200, error |-> "none"]
ValidationError == [status |-> 400, error |-> "ValidationError"]
InsufficientStock == [status |-> 400, error |-> "InsufficientStock"]
NotFound == [status |-> 404, error |-> "NotFound"]

Request(op, id, weight, amount) ==
    [op |-> op, id |-> id, weight |-> weight, amount |-> amount]

\* --------------------------------------- what each handler does to the row
\* Each takes s, the summary row as the handler's query read it, and gives
\* the values the handler assigns; the commit writes the assigned columns.

\* "if not weight or not amount"
MissingParams(weight, amount) == Falsy(weight) \/ Falsy(amount)

\* the amount booked on the sales total
stock_in_summary_Sales(s, w, a) ==
    [s EXCEPT !.current_stock = s.current_stock + w,
              !.total_sales = s.total_sales + a]

stock_in_summary(s, w, a) ==
    [s EXCEPT !.current_stock = s.current_stock + w,
              !.total_cost = s.total_cost + a]

\* refuses only a stock that is already negative
stock_out_short_Negative(s, w) == s.current_stock < 0

\* refuses a sale of all that is left
stock_out_short_Strict(s, w) == s.current_stock <= Half(w)

\* "if summary.current_stock < weight_kg"
stock_out_short(s, w) == s.current_stock < Half(w)

stock_out_summary(s, w, a) ==
    [s EXCEPT !.current_stock = s.current_stock - Half(w),
              !.total_sales = s.total_sales + a]

\* the amount of an "out" row taken off the cost total
delete_summary_WrongTotal(s, r) ==
    IF r.type = "in"
    THEN [s EXCEPT !.current_stock = s.current_stock - r.weight,
                   !.total_cost = s.total_cost - r.amount]
    ELSE [s EXCEPT !.current_stock = s.current_stock + Half(r.weight),
                   !.total_cost = s.total_cost - r.amount]

delete_summary(s, r) ==
    IF r.type = "in"
    THEN [s EXCEPT !.current_stock = s.current_stock - r.weight,
                   !.total_cost = s.total_cost - r.amount]
    ELSE [s EXCEPT !.current_stock = s.current_stock + Half(r.weight),
                   !.total_sales = s.total_sales - r.amount]

\* the new weight of an "out" row applied in jin, not converted to kg
update_summary_NoHalf(s, r, w, a) ==
    IF r.type = "in"
    THEN [s EXCEPT !.current_stock = (s.current_stock - r.weight) + w,
                   !.total_cost = (s.total_cost - r.amount) + a]
    ELSE [s EXCEPT !.current_stock = (s.current_stock + Half(r.weight)) - w,
                   !.total_sales = (s.total_sales - r.amount) + a]

update_summary(s, r, w, a) ==
    IF r.type = "in"
    THEN [s EXCEPT !.current_stock = (s.current_stock - r.weight) + w,
                   !.total_cost = (s.total_cost - r.amount) + a]
    ELSE [s EXCEPT !.current_stock = (s.current_stock + Half(r.weight)) - Half(w),
                   !.total_sales = (s.total_sales - r.amount) + a]

\* the row stamped again with the time of the update
update_row_Restamp(r, w, a) == [r EXCEPT !.weight = w, !.amount = a, !.created_at = now]

\* the amount of the row left as it was
update_row_KeepAmount(r, w, a) == [r EXCEPT !.weight = w]

update_row(r, w, a) == [r EXCEPT !.weight = w, !.amount = a]

\* ------------------------------------------- handlers, one request at a time
Serve(op, id, weight, amount, response) ==
    /\ req' = Request(op, id, weight, amount)
    /\ resp' = response
    /\ prev' = [summary |-> summary, records |-> records]
    /\ listed' = NoListing
    /\ UNCHANGED <<pc, sess, now>>

stock_in ==
    \E body \in Bodies : LET weight == body[1]  amount == body[2] IN
        IF MissingParams(weight, amount)
        THEN /\ Serve("in", 0, weight, amount, ValidationError)
             /\ UNCHANGED <<records, summary>>
        ELSE /\ NewId(records) <= MaxId
             /\ records' = Insert(records, StockRecord("in", weight.val, amount.val, "kg"))
             /\ summary' = stock_in_summary(summary, weight.val, amount.val)
             /\ Serve("in", 0, weight, amount, Ok)

stock_out ==
    \E body \in Bodies : LET weight == body[1]  amount == body[2] IN
        IF MissingParams(weight, amount)
        THEN /\ Serve("out", 0, weight, amount, ValidationError)
             /\ UNCHANGED <<records, summary>>
        ELSE IF stock_out_short(summary, weight.val)
        THEN /\ Serve("out", 0, weight, amount, InsufficientStock)
             /\ UNCHANGED <<records, summary>>
        ELSE /\ NewId(records) <= MaxId
             /\ records' = Insert(records, StockRecord("out", weight.val, amount.val, "jin"))
             /\ summary' = stock_out_summary(summary, weight.val, amount.val)
             /\ Serve("out", 0, weight, amount, Ok)

\* an unknown id answered with success
delete_record_Silent ==
    \E record_id \in IdInputs :
        IF record_id \notin DOMAIN records
        THEN /\ Serve("delete", record_id, NullVal, NullVal, Ok)
             /\ UNCHANGED <<records, summary>>
        ELSE /\ summary' = delete_summary(summary, records[record_id])
             /\ records' = Delete(records, record_id)
             /\ Serve("delete", record_id, NullVal, NullVal, Ok)

\* a delete refused when it would leave the stock negative
delete_record_Guarded ==
    \E record_id \in IdInputs :
        IF record_id \notin DOMAIN records
        THEN /\ Serve("delete", record_id, NullVal, NullVal, NotFound)
             /\ UNCHANGED <<records, summary>>
        ELSE IF delete_summary(summary, records[record_id]).current_stock < 0
        THEN /\ Serve("delete", record_id, NullVal, NullVal, InsufficientStock)
             /\ UNCHANGED <<records, summary>>
        ELSE /\ summary' = delete_summary(summary, records[record_id])
             /\ records' = Delete(records, record_id)
             /\ Serve("delete", record_id, NullVal, NullVal, Ok)

delete_record ==
    \E record_id \in IdInputs :
        IF record_id \notin DOMAIN records
        THEN /\ Serve("delete", record_id, NullVal, NullVal, NotFound)
             /\ UNCHANGED <<records, summary>>
        ELSE /\ summary' = delete_summary(summary, records[record_id])
             /\ records' = Delete(records, record_id)
             /\ Serve("delete", record_id, NullVal, NullVal, Ok)

update_record ==
    \E record_id \in IdInputs, body \in Bodies : LET weight == body[1]  amount == body[2] IN
        IF record_id \notin DOMAIN records
        THEN /\ Serve("update", record_id, weight, amount, NotFound)
             /\ UNCHANGED <<records, summary>>
        ELSE IF MissingParams(weight, amount)
        THEN /\ Serve("update", record_id, weight, amount, ValidationError)
             /\ UNCHANGED <<records, summary>>
        ELSE /\ summary' = update_summary(summary, records[record_id], weight.val, amount.val)
             /\ records' = [records EXCEPT ![record_id] = update_row(@, weight.val, amount.val)]
             /\ Serve("update", record_id, weight, amount, Ok)

\* --------------------------------------------------------- specification
NoRequest == Request("none", 0, NullVal, NullVal)
NoResponse == [status |-> 0, error |-> "none"]

\* What a handler's session holds: the request, the row and the summary as
\* its queries loaded them, and the answer once there is one.
Session(op, id, weight, amount, row, s, response) ==
    [op |-> op, id |-> id, weight |-> weight, amount |-> amount,
     row |-> row, summary |-> s, response |-> response]
NoRow == [type |-> "none", weight |-> 0, amount |-> 0, unit |-> "none",
          created_at |-> 0]
NoSession ==
    Session("none", 0, NullVal, NullVal, NoRow, StockSummary(0, 0, 0), NoResponse)

\* "if StockSummary.query.count() == 0": the summary row starts at zero and
\* the ledger is empty.
Init ==
    /\ records = <<>>
    /\ summary = StockSummary(0, 0, 0)
    /\ req = NoRequest
    /\ resp = NoResponse
    /\ prev = [summary |-> summary, records |-> records]
    /\ pc = [c \in Clients |-> "idle"]
    /\ sess = [c \in Clients |-> NoSession]
    /\ now = Min(Instants)
    /\ listed = NoListing

Next == stock_in \/ stock_out \/ delete_record \/ update_record

Spec == Init /\ [][Next]_vars

\* ------------------------------------------------------------ get_records
\* lines 121-130: the filters of the query
Filtered(recs, start_time, end_time) ==
    {i \in DOMAIN recs :
        /\ start_time # NoDate => recs[i].created_at >= start_utc(start_time)
        /\ end_time # NoDate => recs[i].created_at <= end_utc(end_time)}

\* line 133: order_by(created_at.desc()); rows of one instant come in any order
Descending(recs, ids) ==
    {q \in [1..Cardinality(ids) -> ids] :
        /\ \A j, k \in DOMAIN q : j # k => q[j] # q[k]
        /\ \A j, k \in DOMAIN q :
              j < k => recs[q[j]].created_at >= recs[q[k]].created_at}

\* The answer lists the rows by their id, in the order returned.
get_records ==
    \E start_time \in DateInputs, end_time \in DateInputs :
        \E rows \in Descending(records, Filtered(records, start_time, end_time)) :
            /\ listed' = [start_time |-> start_time, end_time |-> end_time,
                          rows |-> rows]
            /\ req' = Request("list", 0, NullVal, NullVal)
            /\ resp' = Ok
            /\ prev' = [summary |-> summary, records |-> records]
            /\ UNCHANGED <<records, summary, pc, sess, now>>

\* Time passes between two requests.
Tick ==
    /\ \E t \in Instants : t > now /\ now' = t
    /\ req' = NoRequest
    /\ resp' = NoResponse
    /\ prev' = [summary |-> summary, records |-> records]
    /\ listed' = NoListing
    /\ UNCHANGED <<records, summary, pc, sess>>

\* The requests served while the clock runs carry one of two bodies.
TimedBodies ==
    {<<NumVal(1), NumVal(1)>>, <<NumVal(2), NumVal(2)>>, <<NullVal, NullVal>>}
TimedBody == <<req.weight, req.amount>> \in TimedBodies

TimedNext ==
    \/ Tick
    \/ get_records
    \/ stock_in /\ TimedBody'
    \/ stock_out /\ TimedBody'
    \/ delete_record /\ TimedBody'
    \/ update_record /\ TimedBody'

TimedSpec == Init /\ [][TimedNext]_vars

\* Only stock_in and stock_out requests, each with a weight above zero.
PositiveWeight == req.weight.kind = "num" /\ req.weight.val > 0

InOutNext ==
    \/ stock_in /\ PositiveWeight'
    \/ stock_out /\ PositiveWeight'

InOutSpec == Init /\ [][InOutNext]_vars

\* ------------------------------------------- handlers running side by side
\* Two requests served at the same time, each in a session of its own.  The
\* handler takes no lock of its own (whatever serialisation there is would
\* have to come from the storage engine, the handler asks for none): the
\* query (line 60) loads the summary row into the session, the += of lines
\* 61-62 work on that loaded copy, and the commit (line 63) inserts the row
\* and writes the two assigned columns with the values so computed.

\* lines 43-60: parse, validate, build the row, load the summary
stock_in_query(c) ==
    /\ pc[c] = "idle"
    /\ \E body \in Bodies : LET weight == body[1]  amount == body[2] IN
        IF MissingParams(weight, amount)
        THEN /\ sess' = [sess EXCEPT ![c] =
                    Session("in", 0, weight, amount, NoRow, summary, ValidationError)]
             /\ pc' = [pc EXCEPT ![c] = "done"]
        ELSE /\ sess' = [sess EXCEPT ![c] =
                    Session("in", 0, weight, amount, NoRow, summary, NoResponse)]
             /\ pc' = [pc EXCEPT ![c] = "commit"]
    /\ UNCHANGED <<records, summary, req, resp, prev, now, listed>>

\* lines 61-65: add to the loaded copy, commit
\* the row committed, the summary not written
stock_in_commit_RowOnly(c) ==
    /\ pc[c] = "commit"
    /\ NewId(records) <= MaxId
    /\ records' = Insert(records, StockRecord("in", sess[c].weight.val,
                                              sess[c].amount.val, "kg"))
    /\ UNCHANGED summary
    /\ sess' = [sess EXCEPT ![c].response = Ok]
    /\ pc' = [pc EXCEPT ![c] = "done"]
    /\ UNCHANGED <<req, resp, prev, now, listed>>

stock_in_commit(c) ==
    /\ pc[c] = "commit" /\ sess[c].op = "in"
    /\ NewId(records) <= MaxId
    /\ LET w == sess[c].weight.val
           a == sess[c].amount.val
           new == stock_in_summary(sess[c].summary, w, a)
       IN /\ records' = Insert(records, StockRecord("in", w, a, "kg"))
          /\ summary' = [summary EXCEPT !.current_stock = new.current_stock,
                                        !.total_cost = new.total_cost]
    /\ sess' = [sess EXCEPT ![c].response = Ok]
    /\ pc' = [pc EXCEPT ![c] = "done"]
    /\ UNCHANGED <<req, resp, prev, now, listed>>

ConcNext == \E c \in Clients : stock_in_query(c) \/ stock_in_commit(c)

ConcSpec == Init /\ [][ConcNext]_vars

\* C4: two stock_in requests of weight 1 each, served side by side from
\* current_stock = 0 with their loads and commits in any order, leave
\* current_stock = 2 once both have answered.
C4_BothInboundsCounted ==
    (\A c \in Clients : /\ pc[c] = "done"
                        /\ sess[c].response = Ok
                        /\ sess[c].weight = NumVal(1))
    => summary.current_stock = Num(2)

\* The commit writes the columns of the summary whose assigned value differs
\* from the loaded one, each with the assigned value.
Written(loaded, new) ==
    [summary EXCEPT
        !.current_stock = IF new.current_stock # loaded.current_stock
                          THEN new.current_stock ELSE @,
        !.total_sales = IF new.total_sales # loaded.total_sales
                        THEN new.total_sales ELSE @,
        !.total_cost = IF new.total_cost # loaded.total_cost
                       THEN new.total_cost ELSE @]

Step(c, to, session) ==
    /\ pc' = [pc EXCEPT ![c] = to]
    /\ sess' = [sess EXCEPT ![c] = session]
    /\ UNCHANGED <<req, resp, prev, now, listed>>

Answer(c, response) == [sess[c] EXCEPT !.response = response]

\* stock_out, lines 69-82: parse, validate, load the summary, check the stock
stock_out_query(c) ==
    /\ pc[c] = "idle"
    /\ \E body \in Bodies : LET weight == body[1]  amount == body[2] IN
        IF MissingParams(weight, amount)
        THEN Step(c, "done",
                  Session("out", 0, weight, amount, NoRow, summary, ValidationError))
        ELSE IF stock_out_short(summary, weight.val)
        THEN Step(c, "done",
                  Session("out", 0, weight, amount, NoRow, summary, InsufficientStock))
        ELSE Step(c, "commit",
                  Session("out", 0, weight, amount, NoRow, summary, NoResponse))
    /\ UNCHANGED <<records, summary>>

\* the row committed, the summary not written
stock_out_commit_RowOnly(c) ==
    /\ pc[c] = "commit" /\ sess[c].op = "out"
    /\ NewId(records) <= MaxId + 1
    /\ records' = Insert(records, StockRecord("out", sess[c].weight.val,
                                              sess[c].amount.val, "jin"))
    /\ UNCHANGED summary
    /\ Step(c, "done", Answer(c, Ok))

\* stock_out, lines 85-98: add the row, subtract from the loaded copy, commit
stock_out_commit(c) ==
    /\ pc[c] = "commit" /\ sess[c].op = "out"
    /\ NewId(records) <= MaxId + 1
    /\ LET w == sess[c].weight.val
           a == sess[c].amount.val
       IN /\ records' = Insert(records, StockRecord("out", w, a, "jin"))
          /\ summary' = Written(sess[c].summary,
                                stock_out_summary(sess[c].summary, w, a))
    /\ Step(c, "done", Answer(c, Ok))

\* delete_record, lines 153-155: look the row up
delete_record_get(c) ==
    /\ pc[c] = "idle"
    /\ \E record_id \in IdInputs :
        IF record_id \notin DOMAIN records
        THEN Step(c, "done",
                  Session("delete", record_id, NullVal, NullVal, NoRow, summary, NotFound))
        ELSE Step(c, "loaded",
                  Session("delete", record_id, NullVal, NullVal, records[record_id],
                          summary, NoResponse))
    /\ UNCHANGED <<records, summary>>

\* delete_record, line 158: load the summary
delete_record_query(c) ==
    /\ pc[c] = "loaded" /\ sess[c].op = "delete"
    /\ Step(c, "commit", [sess[c] EXCEPT !.summary = summary])
    /\ UNCHANGED <<records, summary>>

\* delete_record, lines 159-170: reverse the loaded row on the loaded copy,
\* delete the row (a row already gone matches no row, which the session
\* reports as a warning), commit
delete_record_commit(c) ==
    /\ pc[c] = "commit" /\ sess[c].op = "delete"
    /\ summary' = Written(sess[c].summary, delete_summary(sess[c].summary, sess[c].row))
    /\ records' = Delete(records, sess[c].id)
    /\ Step(c, "done", Answer(c, Ok))

\* update_record, lines 174-183: look the row up, parse, validate
update_record_get(c) ==
    /\ pc[c] = "idle"
    /\ \E record_id \in IdInputs, body \in Bodies :
        LET weight == body[1]  amount == body[2] IN
        IF record_id \notin DOMAIN records
        THEN Step(c, "done",
                  Session("update", record_id, weight, amount, NoRow, summary, NotFound))
        ELSE IF MissingParams(weight, amount)
        THEN Step(c, "done",
                  Session("update", record_id, weight, amount, records[record_id],
                          summary, ValidationError))
        ELSE Step(c, "loaded",
                  Session("update", record_id, weight, amount, records[record_id],
                          summary, NoResponse))
    /\ UNCHANGED <<records, summary>>

\* update_record, line 186: load the summary
update_record_query(c) ==
    /\ pc[c] = "loaded" /\ sess[c].op = "update"
    /\ Step(c, "commit", [sess[c] EXCEPT !.summary = summary])
    /\ UNCHANGED <<records, summary>>

\* update_record, lines 187-205: reverse and reapply on the loaded copy,
\* assign the row, commit
update_record_commit(c) ==
    /\ pc[c] = "commit" /\ sess[c].op = "update"
    /\ sess[c].id \in DOMAIN records
    /\ LET w == sess[c].weight.val
           a == sess[c].amount.val
       IN /\ summary' = Written(sess[c].summary,
                                update_summary(sess[c].summary, sess[c].row, w, a))
          /\ records' = [records EXCEPT ![sess[c].id] = update_row(sess[c].row, w, a)]
    /\ Step(c, "done", Answer(c, Ok))

\* The request dies before its commit (the process is killed, the worker
\* fails): the session and everything pending in it is dropped.
Aborted == [status |-> 500, error |-> "aborted"]

Abort(c) ==
    /\ pc[c] \in {"loaded", "commit"}
    /\ Step(c, "aborted", Answer(c, Aborted))
    /\ UNCHANGED <<records, summary>>

\* The client turns to its next request.
Finish(c) ==
    /\ pc[c] \in {"done", "aborted"}
    /\ Step(c, "idle", NoSession)
    /\ UNCHANGED <<records, summary>>

\* ---- two requests side by side, on a ledger that holds one inbound row
Seeds == {1, 2}

RaceInit ==
    /\ \E w \in Seeds :
        /\ records = <<[type |-> "in", weight |-> Num(w), amount |-> Num(1),
                        unit |-> "kg", created_at |-> Min(Instants)]>>
        /\ summary = StockSummary(Num(w), 0, Num(1))
    /\ req = NoRequest
    /\ resp = NoResponse
    /\ prev = [summary |-> summary, records |-> records]
    /\ pc = [c \in Clients |-> "idle"]
    /\ sess = [c \in Clients |-> NoSession]
    /\ now = Min(Instants)
    /\ listed = NoListing

RaceNext ==
    \E c \in Clients :
        \/ stock_out_query(c)
        \/ stock_out_commit(c)
        \/ delete_record_get(c)
        \/ delete_record_query(c)
        \/ delete_record_commit(c)

RaceSpec == RaceInit /\ [][RaceNext]_vars

\* ---- one request at a time, in steps, any of which may be the last
CrashBody == \A c \in Clients : <<sess[c].weight, sess[c].amount>> \in TimedBodies

CrashNext ==
    \/ stock_in_query("c1") /\ CrashBody'
    \/ stock_in_commit("c1")
    \/ stock_out_query("c1") /\ CrashBody'
    \/ stock_out_commit("c1")
    \/ delete_record_get("c1")
    \/ delete_record_query("c1")
    \/ delete_record_commit("c1")
    \/ update_record_get("c1") /\ CrashBody'
    \/ update_record_query("c1")
    \/ update_record_commit("c1")
    \/ Abort("c1")
    \/ Finish("c1")

CrashSpec == Init /\ [][CrashNext]_vars

\* ------------------------------------------------- what the ledger amounts to
RECURSIVE SumOver(_, _, _)
SumOver(recs, ids, kind) ==
    IF ids = {} THEN 0
    ELSE LET i == CHOOSE x \in ids : TRUE
             r == recs[i]
             term == CASE kind = "stock" ->
                              IF r.type = "in" THEN r.weight ELSE 0 - (r.weight \div 2)
                       [] kind = "cost" -> IF r.type = "in" THEN r.amount ELSE 0
                       [] kind = "sales" -> IF r.type = "out" THEN r.amount ELSE 0
         IN term + SumOver(recs, ids \ {i}, kind)

LedgerStock == SumOver(records, DOMAIN records, "stock")
LedgerCost == SumOver(records, DOMAIN records, "cost")
LedgerSales == SumOver(records, DOMAIN records, "sales")

\* the request carried a usable (present, non-zero) number
Given(v) == v.kind = "num" /\ v.val # 0
Served(op) == req.op = op
Known == req.id \in DOMAIN prev.records
OldRow == prev.records[req.id]
Untouched == summary = prev.summary /\ records = prev.records
\* the ledger gained exactly the row r, under a key it did not have before
Gained(r) ==
    \E i \in DOMAIN records \ DOMAIN prev.records :
        /\ DOMAIN records = DOMAIN prev.records \cup {i}
        /\ records[i] = r
        /\ \A j \in DOMAIN prev.records : records[j] = prev.records[j]

\* C1: after any sequence of completed stock_in / stock_out / update_record /
\* delete_record requests from the zero summary and the empty ledger,
\* current_stock is the sum over the surviving rows of +weight for an "in"
\* row and -(weight / 2) for an "out" row.
C1_StockMatchesLedger == summary.current_stock = LedgerStock

C1_Witness ==
    /\ Served("update") /\ resp = Ok
    /\ OldRow.type = "out" /\ OldRow.weight # req.weight.val
    /\ \E i \in DOMAIN records : records[i].type = "in"

\* C2: after any sequence of completed requests, total_cost is the sum of
\* amount over the surviving "in" rows and total_sales the sum of amount over
\* the surviving "out" rows.
C2_TotalsMatchLedger ==
    /\ summary.total_cost = LedgerCost
    /\ summary.total_sales = LedgerSales

C2_Witness ==
    /\ Served("delete") /\ resp = Ok
    /\ OldRow.type = "out"
    /\ summary.total_cost # 0

\* C3: stock_out with usable arguments, arriving when current_stock is below
\* weight / 2, answers InsufficientStock and leaves the summary and the
\* ledger as they were.
C3_InsufficientStock ==
    (/\ Served("out") /\ Given(req.weight) /\ Given(req.amount)
     /\ 2 * prev.summary.current_stock < req.weight.val)
    => (resp = InsufficientStock /\ Untouched)

C3_Witness ==
    /\ Served("out") /\ resp = InsufficientStock
    /\ prev.summary.current_stock > 0
    /\ prev.records # <<>>

\* C5: update_record on an existing row with usable values moves the summary
\* by (new contribution - old contribution) of the row's own type: an "in"
\* row moves current_stock by weight - old weight and total_cost by
\* amount - old amount, an "out" row moves current_stock by
\* old weight / 2 - weight / 2 and total_sales by amount - old amount; the
\* other total stays, and the row then holds the new weight and amount.
C5_UpdateDelta ==
    (Served("update") /\ Known /\ Given(req.weight) /\ Given(req.amount))
    => /\ resp = Ok
       /\ records[req.id].weight = req.weight.val
       /\ records[req.id].amount = req.amount.val
       /\ IF OldRow.type = "in"
          THEN /\ summary.current_stock - prev.summary.current_stock
                    = req.weight.val - OldRow.weight
               /\ summary.total_cost - prev.summary.total_cost
                    = req.amount.val - OldRow.amount
               /\ summary.total_sales = prev.summary.total_sales
          ELSE /\ 2 * (summary.current_stock - prev.summary.current_stock)
                    = OldRow.weight - req.weight.val
               /\ summary.total_sales - prev.summary.total_sales
                    = req.amount.val - OldRow.amount
               /\ summary.total_cost = prev.summary.total_cost

C5_Witness ==
    /\ Served("update") /\ resp = Ok
    /\ OldRow.type = "out"
    /\ OldRow.weight = Num(2) /\ req.weight.val = Num(1)
    /\ OldRow.amount = Num(2) /\ req.amount.val = Num(1)
    /\ prev.summary.current_stock = Num(1)

\* C6: delete_record on an existing row applies only the reversal of that
\* row (an "in" row: current_stock -= weight, total_cost -= amount; an "out"
\* row: current_stock += weight / 2, total_sales -= amount) and removes the
\* row and no other; an update_record or delete_record of the same id served
\* next answers NotFound; and deleting the row a stock_in or stock_out has
\* just created puts the summary back to what it was before that request.
C6_Reversal ==
    (Served("delete") /\ Known)
    => /\ resp = Ok
       /\ DOMAIN records = DOMAIN prev.records \ {req.id}
       /\ \A j \in DOMAIN records : records[j] = prev.records[j]
       /\ IF OldRow.type = "in"
          THEN /\ summary.current_stock = prev.summary.current_stock - OldRow.weight
               /\ summary.total_cost = prev.summary.total_cost - OldRow.amount
               /\ summary.total_sales = prev.summary.total_sales
          ELSE /\ 2 * (summary.current_stock - prev.summary.current_stock) = OldRow.weight
               /\ summary.total_sales = prev.summary.total_sales - OldRow.amount
               /\ summary.total_cost = prev.summary.total_cost

C6_Gone ==
    (/\ Served("delete") /\ resp = Ok
     /\ req'.op \in {"update", "delete"} /\ req'.id = req.id)
    => resp' = NotFound

C6_RoundTrip ==
    (/\ req.op \in {"in", "out"} /\ resp = Ok
     /\ req'.op = "delete" /\ req'.id \in DOMAIN records \ DOMAIN prev.records)
    => (resp' = Ok /\ summary' = prev.summary /\ records' = prev.records)

C7_Inbound ==
    (Served("in") /\ Given(req.weight) /\ req.weight.val > 0 /\ Given(req.amount))
    => /\ resp = Ok
       /\ Gained([type |-> "in", weight |-> req.weight.val,
                  amount |-> req.amount.val, unit |-> "kg", created_at |-> now])
       /\ summary.current_stock = prev.summary.current_stock + req.weight.val
       /\ summary.total_cost = prev.summary.total_cost + req.amount.val
       /\ summary.total_sales = prev.summary.total_sales

C7_Witness ==
    /\ Served("in") /\ resp = Ok
    /\ req.weight.val = Num(2)
    /\ prev.summary.current_stock < 0
    /\ prev.summary.total_sales > 0

\* C8: stock_out with usable arguments answers success exactly when
\* current_stock >= weight / 2 (equality included, which empties the stock);
\* then the ledger gains exactly one "out" row with unit jin holding the
\* weight in jin, current_stock drops by weight / 2, total_sales grows by
\* the amount, and total_cost stays.
C8_Outbound ==
    (Served("out") /\ Given(req.weight) /\ Given(req.amount))
    => /\ (resp = Ok) <=> (2 * prev.summary.current_stock >= req.weight.val)
       /\ resp = Ok =>
            /\ Gained([type |-> "out", weight |-> req.weight.val,
                       amount |-> req.amount.val, unit |-> "jin",
                       created_at |-> now])
            /\ 2 * (prev.summary.current_stock - summary.current_stock)
                 = req.weight.val
            /\ summary.total_sales = prev.summary.total_sales + req.amount.val
            /\ summary.total_cost = prev.summary.total_cost

C8_Witness ==
    /\ Served("out") /\ resp = Ok
    /\ req.weight.val = Num(2)
    /\ prev.summary.current_stock = Num(1)
    /\ summary.current_stock = 0

\* C9: update_record and delete_record with an id that is not in the ledger
\* answer NotFound and leave the summary and every row as they were.
C9_NotFound ==
    (req.op \in {"update", "delete"} /\ ~Known)
    => (resp = NotFound /\ Untouched)

C9_Witness ==
    /\ Served("update") /\ resp = NotFound
    /\ req.weight = NullVal
    /\ records # <<>>

\* C10: stock_in, stock_out and update_record (on an existing id) with weight
\* or amount absent or falsy (0 included) answer ValidationError and leave
\* the summary and every row as they were.
C10_Validation ==
    (/\ req.op \in {"in", "out"} \/ (Served("update") /\ Known)
     /\ ~(Given(req.weight) /\ Given(req.amount)))
    => (resp = ValidationError /\ Untouched)

C10_Witness ==
    /\ Served("update") /\ resp = ValidationError
    /\ req.weight = NumVal(0)
    /\ req.amount = NumVal(1)

\* C11: every row of the ledger has weight > 0 and amount >= 0, whatever
\* numbers, negative ones included, the requests carry.
C11_RowsPositive ==
    \A i \in DOMAIN records : records[i].weight > 0 /\ records[i].amount >= 0

\* C16: update_record with usable values and delete_record, on an existing
\* row, never answer InsufficientStock and always succeed, whatever stock
\* results, a negative one included.
C16_NoStockCheck ==
    (\/ Served("update") /\ Known /\ Given(req.weight) /\ Given(req.amount)
     \/ Served("delete") /\ Known)
    => (resp = Ok /\ resp # InsufficientStock)

C16_Witness ==
    /\ Served("delete") /\ resp = Ok
    /\ OldRow.type = "in" /\ OldRow.weight > 0
    /\ prev.summary.current_stock = 0
    /\ summary.current_stock < 0
    /\ \E i \in DOMAIN records : records[i].type = "out"

\* C18: when only stock_in and stock_out are served, each with a weight above
\* zero, current_stock is never negative.
C18_StockNeverNegative == summary.current_stock >= 0

C18_Witness ==
    /\ Served("out") /\ resp = Ok
    /\ prev.summary.current_stock > 0
    /\ summary.current_stock = 0

\* the date of an instant on the local (UTC+8) calendar
LocalDate(t) == (t + LocalOffset) \div MinutesPerDay
Listed(i) == \E j \in DOMAIN listed.rows : listed.rows[j] = i

\* C12: get_records with end_time = D returns every row whose created_at,
\* on the local calendar, falls on date D (a row of local 23:50 of D is
\* returned when start_time = end_time = D).
C12_EndDateInclusive ==
    (Served("list") /\ listed.end_time # NoDate)
    => \A i \in DOMAIN records :
          LocalDate(records[i].created_at) = listed.end_time => Listed(i)

\* C13: get_records with start_time = D returns a row only if its created_at
\* is at or after local 00:00 of D; a row of exactly local 00:00 of D is
\* returned, a row of local 23:55 of the day before is not.
C13_StartDateFromMidnight ==
    (Served("list") /\ listed.start_time # NoDate)
    => \A i \in DOMAIN records :
          /\ Listed(i) =>
               records[i].created_at + LocalOffset
                   >= listed.start_time * MinutesPerDay
          /\ (/\ listed.end_time = NoDate
              /\ records[i].created_at + LocalOffset
                   = listed.start_time * MinutesPerDay) => Listed(i)

\* C14: get_records returns each surviving row within the given dates
\* exactly once (every surviving row when no date is given) and no other
\* row, and no row comes before one with a later created_at.
WithinDates(i) ==
    /\ listed.start_time # NoDate =>
         LocalDate(records[i].created_at) >= listed.start_time
    /\ listed.end_time # NoDate =>
         LocalDate(records[i].created_at) <= listed.end_time

C14_ListingExactAndOrdered ==
    Served("list")
    => /\ \A j, k \in DOMAIN listed.rows :
             j # k => listed.rows[j] # listed.rows[k]
       /\ \A i \in IdInputs : Listed(i) <=> (i \in DOMAIN records /\ WithinDates(i))
       /\ \A j, k \in DOMAIN listed.rows :
             j < k => records[listed.rows[j]].created_at
                          >= records[listed.rows[k]].created_at

\* C17: update_record changes only the weight and the amount of the row it
\* addresses: that row keeps its id, type, unit and created_at, every other
\* row is unchanged, and every row always has unit kg exactly when its type
\* is "in" and unit jin exactly when its type is "out".
C17_UpdateFrame ==
    /\ (Served("update") /\ resp = Ok)
       => /\ DOMAIN records = DOMAIN prev.records
          /\ \A j \in DOMAIN records : j # req.id => records[j] = prev.records[j]
          /\ records[req.id].type = OldRow.type
          /\ records[req.id].unit = OldRow.unit
          /\ records[req.id].created_at = OldRow.created_at
    /\ \A i \in DOMAIN records :
          /\ records[i].unit = "kg" <=> records[i].type = "in"
          /\ records[i].unit = "jin" <=> records[i].type = "out"

C17_Witness ==
    /\ Served("update") /\ resp = Ok
    /\ OldRow.type = "out"
    /\ OldRow.created_at < now
    /\ OldRow.weight # records[req.id].weight
    /\ OldRow.amount # records[req.id].amount
    /\ \E j \in DOMAIN records : j # req.id /\ records[j].type = "in"

\* C15: in each of stock_in, stock_out, update_record and delete_record the
\* change of the ledger and the change of the summary are committed in one
\* step: a request that dies before it completes leaves both tables as they
\* were, no step changes one table without the other, and so the two tables
\* agree in every state, those in the middle of a request included.
C15_TablesAgree ==
    /\ summary.current_stock = LedgerStock
    /\ summary.total_cost = LedgerCost
    /\ summary.total_sales = LedgerSales

C15_Together ==
    /\ (\E c \in Clients : pc'[c] = "aborted" /\ pc[c] # "aborted")
           => UNCHANGED <<records, summary>>
    /\ (records' # records) <=> (summary' # summary)

C15_AtomicCommit == []C15_TablesAgree /\ [][C15_Together]_vars

C15_Witness ==
    /\ pc["c1"] = "aborted"
    /\ sess["c1"].op = "update"
    /\ sess["c1"].row.type = "out"
    /\ sess["c1"].weight.val # sess["c1"].row.weight
    /\ \E i \in DOMAIN records : records[i].type = "in"

\* C19: when two delete_record requests for the same existing id run side by
\* side (each looks the row up, then loads the summary, then commits, in any
\* order), the row is reversed from the summary at most once: after both
\* have answered, current_stock and the totals are those of the surviving
\* rows.
C19_DeleteReversedOnce ==
    (\A c \in Clients : /\ pc[c] = "done"
                        /\ sess[c].op = "delete"
                        /\ sess[c].id \in DOMAIN prev.records
                        /\ \A d \in Clients : sess[d].id = sess[c].id)
    => /\ summary.current_stock = LedgerStock
       /\ summary.total_cost = LedgerCost
       /\ summary.total_sales = LedgerSales

\* C20: when two stock_out requests run side by side, each within
\* current_stock on its own and the two together above it, at most one of
\* them succeeds: in every state the sum over the surviving rows (inbound
\* weights minus half the outbound weights) is >= 0.
C20_NoOversell ==
    (/\ \A c \in Clients : /\ sess[c].op = "out"
                           /\ Given(sess[c].weight) /\ Given(sess[c].amount)
                           /\ sess[c].weight.val > 0
                           /\ 2 * prev.summary.current_stock >= sess[c].weight.val
     /\ 2 * prev.summary.current_stock
            < sess["c1"].weight.val + sess["c2"].weight.val)
    => /\ LedgerStock >= 0
       /\ ~(\A c \in Clients : sess[c].response = Ok)

====
